---- MODULE Spec2Model ----
(***************************************************************************)
(* Model of the patient chatbot (src/patient_chatbot.py): red flag         *)
(* detection, warning composition, warning de-duplication and the turn     *)
(* handler PatientChatbot.chat with its conversation memory.               *)
(*                                                                         *)
(* Text is a sequence of tokens.  The warning marker of the source is the  *)
(* two code points U+26A0 U+FE0F, modelled as the two tokens "W" "V" so    *)
(* that splitting on the marker is a real substring search.  "nl" is a     *)
(* newline, "w" a stretch of ordinary words, "siren" U+1F6A8, "=" a rule   *)
(* of sixty "=" signs.  A warning-indicator phrase is one token, in the    *)
(* letter case in which it occurs.                                         *)
(***************************************************************************)
EXTENDS Integers, Sequences, FiniteSets, TLC

VARIABLES
    pc,                   \* position of the running turn of chat, "idle" between calls
    user_message,         \* chat: parameter user_message
    red_flags,            \* chat: local red_flags
    current_session,      \* chat: local current_session
    gen_request,          \* input handed to the prompt and the LLM by rag_chain
    raw_response,         \* what rag_chain.invoke returned
    response,             \* chat: local response after reconciliation
    current_conversation, \* self.memory.current_conversation
    stored,               \* persisted record of the patient
    recent_context,       \* self.recent_context
    outcome,              \* how the last call of chat ended: "none", "ok", or the error
    log_before,           \* current_conversation when the last call of chat began
    turns,                \* number of calls of chat so far
    prev,                 \* user_message, outcome and log_before of the call before
    log_at_init,          \* the session log when the chatbot was constructed
    fn_in,                \* argument of the pure function under check
    fn_out,               \* its successive results
    gen_calls,            \* invocations of the LLM in the running turn
    cli,                  \* position of main: "none" when chat has another caller
    end_calls,            \* calls of end_conversation in this run of main
    runs,                 \* runs of main for this patient so far
    saved_log,            \* the session log that the last end_conversation saved
    runner,               \* position of the test runner's loop, "off" when not in use
    cases,                \* debug_test_runner: test_cases (their questions)
    responses,            \* debug_test_runner: responses
    report                \* debug_test_runner: the summary written after the loop

cliVars == <<cli, end_calls, runs, saved_log>>

runnerVars == <<runner, cases, responses, report>>

vars == <<pc, user_message, red_flags, current_session, gen_request, raw_response,
          response, current_conversation, stored, recent_context, outcome,
          log_before, turns, prev, log_at_init, fn_in, fn_out, gen_calls, cliVars,
          runnerVars>>

chatVars == <<pc, user_message, red_flags, current_session, gen_request, raw_response,
              response, current_conversation, stored, recent_context, outcome,
              log_before, turns, prev, log_at_init, gen_calls, cliVars, runnerVars>>

None == "none"

(***************************************************************************)
(* Bounds                                                                  *)
(***************************************************************************)
MaxTurns == 3        \* calls of chat in one run of Spec
MaxReplyLen == 5     \* tokens of a generated reply in SpecTurn
MaxTextLen == 6      \* tokens of a text handed to _deduplicate_warnings in SpecDedup
MaxFlags == 3        \* length of a list handed to create_red_flag_warning in SpecWarn
MaxMsgLen == 3       \* fragments of a user message in SpecClassify
MaxLogLen == 7       \* messages of a persisted session log in SpecRecent
MaxRuns == 2         \* runs of main for one patient in SpecCli
MaxWindow == 3       \* largest max_messages asked for in SpecRecent
MaxEvals == 2        \* results of one evaluator's file in SpecCompare

(***************************************************************************)
(* Text helpers: Python's str.lower and str.split                           *)
(***************************************************************************)
SeqsUpTo(S, n) == UNION {[1..k -> S] : k \in 0..n}

\* str.lower on one token
LowerTok(t) ==
    CASE t = "MEDICAL ATTENTION" -> "medical attention"
      [] t = "Urgent Care" -> "urgent care"
      [] t = "Tarry" -> "tarry"
      [] t = "FEVER" -> "fever"
      [] t = "Dizzy" -> "dizzy"
      [] OTHER -> t

Lower(s) == [i \in 1..Len(s) |-> LowerTok(s[i])]

\* first index >= from at which sep occurs in s, 0 when there is none
Find(s, sep, from) ==
    LET hits == {i \in from..(Len(s) - Len(sep) + 1) :
                    SubSeq(s, i, i + Len(sep) - 1) = sep}
    IN IF hits = {} THEN 0 ELSE CHOOSE i \in hits : \A j \in hits : i <= j

\* s.split(sep): the pieces between the non-overlapping occurrences, left to right
RECURSIVE Split(_, _)
Split(s, sep) ==
    LET i == Find(s, sep, 1)
    IN IF i = 0 THEN <<s>>
       ELSE <<SubSeq(s, 1, i - 1)>> \o Split(SubSeq(s, i + Len(sep), Len(s)), sep)

Last(s) == s[Len(s)]

(***************************************************************************)
(* RED_FLAG_PATTERNS and check_for_red_flags                               *)
(*                                                                         *)
(* A user message is a sequence of fragments.  Lits(f) is the set of       *)
(* literals of the patterns that occur in the (lower-cased) fragment f.    *)
(* "nl" is a newline, which the `.` of a pattern does not match.           *)
(***************************************************************************)
Flags == <<"severe_pain", "heavy_bleeding", "fever", "prolonged_constipation",
           "black_stool", "dizziness">>

FlagSet == {Flags[i] : i \in 1..Len(Flags)}

Lits(f) ==
    CASE f = "excruciating" -> {"excruciating"}
      [] f = "gushing" -> {"gushing"}
      [] f = "fever" -> {"fever"}
      [] f = "tarry" -> {"tarry"}
      [] f = "dizzy" -> {"dizz"}
      [] f = "know" -> {"no"}
      [] f = "havent" -> {"havent"}
      [] f = "poop" -> {"poop"}
      [] f = "stool" -> {"stool"}
      [] f = "dark" -> {"dark"}
      [] f = "4 days" -> {"4 day"}
      [] OTHER -> {}

\* the alternatives of a pattern that is a plain alternation of literals
PlainLits(flag) ==
    CASE flag = "severe_pain" ->
            {"severe pain", "excruciating", "unbearable", "extreme pain", "terrible pain"}
      [] flag = "heavy_bleeding" ->
            {"heavy bleed", "lots of blood", "pouring", "filling toilet", "gushing",
             "blood clot"}
      [] flag = "fever" -> {"fever", "temperature", "chills", "hot and cold"}
      [] flag = "black_stool" -> {"black stool", "tarry", "coffee ground"}
      [] flag = "dizziness" -> {"dizz", "faint", "lightheaded", "passed out",
                                "weak and tired"}
      [] OTHER -> {}

\* no newline among the fragments i..k of m
SameLine(m, i, k) == \A n \in i..k : m[n] # "nl"

\* a.*b: a literal of A, then a literal of B later on the same line
Then(m, A, B) ==
    \E i, j \in 1..Len(m) :
        /\ i < j
        /\ Lits(m[i]) \cap A # {}
        /\ Lits(m[j]) \cap B # {}
        /\ SameLine(m, i, j)

\* a.*b.*c
Then3(m, A, B, C) ==
    \E i, j, k \in 1..Len(m) :
        /\ i < j /\ j < k
        /\ Lits(m[i]) \cap A # {}
        /\ Lits(m[j]) \cap B # {}
        /\ Lits(m[k]) \cap C # {}
        /\ SameLine(m, i, k)

\* re.search(RED_FLAG_PATTERNS[flag], m)
Search(flag, m) ==
    \/ \E i \in 1..Len(m) : Lits(m[i]) \cap PlainLits(flag) # {}
    \/ /\ flag = "black_stool"
       /\ Then(m, {"dark"}, {"stool"})
    \/ /\ flag = "prolonged_constipation"
       /\ Then3(m, {"no", "haven't", "havent"}, {"bowel movement", "poop", "stool"},
                {"3 day", "4 day", "5 day", "6 day", "7 day"})

\* faulty variant: the first alternation of prolonged_constipation lacks its parentheses,
\* so that "no" or "haven't" alone matches
check_for_red_flags_unparenthesised(user_msg) ==
    LET user_lower == Lower(user_msg)
        Hit(flag) ==
            \/ Search(flag, user_lower)
            \/ /\ flag = "prolonged_constipation"
               /\ \E i \in 1..Len(user_lower) :
                     Lits(user_lower[i]) \cap {"no", "haven't"} # {}
    IN SelectSeq(Flags, Hit)

\* faulty variant: stops at the first category that matches
check_for_red_flags_first_match(user_msg) ==
    LET user_lower == Lower(user_msg)
        Hit(flag) == Search(flag, user_lower)
        all == SelectSeq(Flags, Hit)
    IN IF all = <<>> THEN <<>> ELSE <<all[1]>>

check_for_red_flags(user_msg) ==
    LET user_lower == Lower(user_msg)
        Hit(flag) == Search(flag, user_lower)
    IN SelectSeq(Flags, Hit)

(***************************************************************************)
(* create_red_flag_warning                                                 *)
(***************************************************************************)
\* faulty variant: dizziness is in neither tier
critical_without_dizziness == {"heavy_bleeding", "black_stool", "severe_pain"}

critical == {"heavy_bleeding", "black_stool", "severe_pain", "dizziness"}

\* faulty variant: fever is in neither tier
non_urgent_without_fever == {"prolonged_constipation"}

non_urgent == {"prolonged_constipation", "fever"}

CriticalTemplate ==
    <<"nl", "nl", "=", "nl", "siren", "MEDICAL ATTENTION", "siren", "nl", "=", "nl", "nl",
      "w", "see a doctor", "w", "urgent care", "w", "emergency", "w">>

NonUrgentTemplate ==
    <<"nl", "nl", "W", "V", "contact your doctor", "nl", "nl", "w", "healthcare provider",
      "w">>

\* faulty variant: tests the non-urgent tier first
create_red_flag_warning_non_urgent_first(flags) ==
    LET has_critical == \E i \in 1..Len(flags) : flags[i] \in critical
        has_non_urgent == \E i \in 1..Len(flags) : flags[i] \in non_urgent
    IN IF flags = <<>> THEN <<>>
       ELSE IF has_non_urgent THEN NonUrgentTemplate
       ELSE IF has_critical THEN CriticalTemplate
       ELSE <<>>

\* faulty variant: escalates every non-empty list
create_red_flag_warning_escalating(flags) ==
    IF flags = <<>> THEN <<>> ELSE CriticalTemplate

create_red_flag_warning(flags) ==
    LET has_critical == \E i \in 1..Len(flags) : flags[i] \in critical
        has_non_urgent == \E i \in 1..Len(flags) : flags[i] \in non_urgent
    IN IF flags = <<>> THEN <<>>
       ELSE IF has_critical THEN CriticalTemplate
       ELSE IF has_non_urgent THEN NonUrgentTemplate
       ELSE <<>>

(***************************************************************************)
(* PatientChatbot._has_warning and _deduplicate_warnings                   *)
(***************************************************************************)
warning_indicators ==
    {"contact your doctor", "see a doctor", "medical attention", "urgent care",
     "emergency", "healthcare provider"}

Marker == <<"W", "V">>

_has_warning(resp) ==
    LET response_lower == Lower(resp)
    IN \E i \in 1..Len(response_lower) : response_lower[i] \in warning_indicators

\* faulty variant: keeps the first warning as well as the last
_deduplicate_warnings_first_and_last(resp) ==
    LET parts == Split(resp, Marker)
    IN IF Len(parts) > 2
       THEN parts[1] \o Marker \o parts[2] \o <<"nl", "nl">> \o Marker \o Last(parts)
       ELSE resp

\* faulty variant: keeps the first warning, not the last
_deduplicate_warnings_first(resp) ==
    LET parts == Split(resp, Marker)
    IN IF Len(parts) > 2
       THEN parts[1] \o <<"nl", "nl">> \o Marker \o parts[2]
       ELSE resp

_deduplicate_warnings(resp) ==
    LET parts == Split(resp, Marker)
    IN IF Len(parts) > 2
       THEN LET main_content == parts[1]
                last_warning == Marker \o Last(parts)
            IN main_content \o <<"nl", "nl">> \o last_warning
       ELSE resp

(***************************************************************************)
(* ConversationMemory (conversation_memory.py is not among the sources;    *)
(* its operations follow section 4.3 of the specification)                 *)
(***************************************************************************)
LastN(log, n) == IF Len(log) <= n THEN log ELSE SubSeq(log, Len(log) - n + 1, Len(log))

\* startSession: the session log is created empty or restored from the persisted record
start_conversation(persisted) == persisted

\* faulty variant: the first max_messages entries
get_recent_context_oldest(log, max_messages) ==
    IF Len(log) <= max_messages THEN log ELSE SubSeq(log, 1, max_messages)

\* recentContext: the last max_messages entries of the session log, oldest first
get_recent_context(log, max_messages) == LastN(log, max_messages)

\* faulty variant: keeps a window of the latest ContextMax messages
add_message_windowed(log, role, content, flags) ==
    LastN(Append(log, [role |-> role, content |-> content, red_flags |-> flags]), 6)

\* addMessage: appends one message, never removes or edits prior entries
add_message(log, role, content, flags) ==
    Append(log, [role |-> role, content |-> content, red_flags |-> flags])

\* saveSession: the full session log overwrites the persisted record
save_conversation(log) == log

(***************************************************************************)
(* PatientChatbot                                                          *)
(***************************************************************************)
ContextMax == 6      \* __init__: get_recent_context(patient_id, max_messages=6)
ContextShown == 4    \* _format_conversation_context: self.recent_context[-4:]
ContentMax == 200    \* _format_conversation_context: msg['content'][:200]

format_chat_history(messages) ==
    [i \in 1..Len(messages) |->
        [type |-> IF messages[i].role = "user" THEN "HumanMessage" ELSE "AIMessage",
         content |-> messages[i].content]]

_format_conversation_context_all(recent) ==
    IF recent = <<>> THEN <<"First conversation with this patient.">>
    ELSE [i \in 1..Len(recent) |->
            [role |-> IF recent[i].role = "user" THEN "Patient" ELSE "You",
             content |-> recent[i].content]]

_format_conversation_context(recent) ==
    IF recent = <<>> THEN <<"First conversation with this patient.">>
    ELSE LET shown == LastN(recent, ContextShown)
         IN [i \in 1..Len(shown) |->
                [role |-> IF shown[i].role = "user" THEN "Patient" ELSE "You",
                 content |-> IF Len(shown[i].content) > ContentMax
                             THEN SubSeq(shown[i].content, 1, ContentMax) \o <<"...">>
                             ELSE shown[i].content]]

\* faulty variant: appends whenever a category matched
Reconciled_always(raw, flags) ==
    LET deduped == _deduplicate_warnings(raw)
    IN IF flags # <<>> THEN deduped \o create_red_flag_warning(flags) ELSE deduped

Reconciled(raw, flags) ==
    LET deduped == _deduplicate_warnings(raw)
    IN IF flags # <<>> /\ ~_has_warning(deduped)
       THEN deduped \o create_red_flag_warning(flags)
       ELSE deduped

\* chat, line 284-285: classification, copy of the session log
ChatCall(m) ==
    /\ pc = "idle"
    /\ turns < MaxTurns
    /\ pc' = "assembly"
    /\ user_message' = m
    /\ red_flags' = check_for_red_flags(m)
    /\ current_session' = current_conversation
    /\ log_before' = current_conversation
    /\ prev' = [message |-> user_message, outcome |-> outcome, log_before |-> log_before]
    /\ outcome' = None
    /\ turns' = turns + 1
    /\ gen_request' = None
    /\ raw_response' = None
    /\ response' = None
    /\ gen_calls' = 0
    /\ UNCHANGED <<current_conversation, stored, recent_context, log_at_init, fn_in, fn_out,
                   cliVars, runnerVars>>

\* rag_chain, lines 261-267: retrieval, conversation context, chat history, question
Assemble ==
    /\ pc = "assembly"
    /\ pc' = "generating"
    /\ gen_request' = [context |-> "docs",
                       conversation_context |-> _format_conversation_context(recent_context),
                       chat_history |-> format_chat_history(current_session),
                       question |-> user_message]
    /\ UNCHANGED <<user_message, red_flags, current_session, raw_response, response,
                   current_conversation, stored, recent_context, outcome, log_before,
                   turns, prev, log_at_init, fn_in, fn_out, gen_calls, cliVars, runnerVars>>

\* faulty variant: the exception leaves main without passing its finally clause
Raise_past_finally(error) ==
    /\ pc' = "idle"
    /\ outcome' = error
    /\ cli' = IF cli = "loop" THEN "exited" ELSE cli
    /\ UNCHANGED <<user_message, red_flags, current_session, gen_request, raw_response,
                   response, current_conversation, stored, recent_context, log_before,
                   turns, prev, log_at_init, fn_in, fn_out, end_calls, runs, saved_log,
                   runnerVars>>

\* the exception of a collaborator leaves chat at once; in main it leaves the loop
\* for the finally clause (line 405)
Raise(error) ==
    /\ pc' = "idle"
    /\ outcome' = error
    /\ cli' = IF cli = "loop" THEN "finally" ELSE cli
    /\ UNCHANGED <<user_message, red_flags, current_session, gen_request, raw_response,
                   response, current_conversation, stored, recent_context, log_before,
                   turns, prev, log_at_init, fn_in, fn_out, end_calls, runs, saved_log,
                   runnerVars>>

\* rag_chain, line 262: self.retriever.invoke raises
RetrieveFail ==
    /\ pc = "assembly"
    /\ Raise("retrieval_error")
    /\ UNCHANGED gen_calls

\* rag_chain, lines 268-269: the LLM answers with raw
Generate(raw) ==
    /\ pc = "generating"
    /\ pc' = "reconciling"
    /\ raw_response' = raw
    /\ gen_calls' = gen_calls + 1
    /\ UNCHANGED <<user_message, red_flags, current_session, gen_request, response,
                   current_conversation, stored, recent_context, outcome, log_before,
                   turns, prev, log_at_init, fn_in, fn_out, cliVars, runnerVars>>

\* faulty variant: has recorded the patient message before the LLM raises
GenerateFail_recorded ==
    /\ pc = "generating"
    /\ pc' = "idle"
    /\ outcome' = "generation_error"
    /\ current_conversation' = add_message(current_conversation, "user", user_message,
                                           red_flags)
    /\ gen_calls' = gen_calls + 1
    /\ UNCHANGED <<user_message, red_flags, current_session, gen_request, raw_response,
                   response, stored, recent_context, log_before, turns, prev,
                   log_at_init, fn_in, fn_out, cliVars, runnerVars>>

\* faulty variant: the LLM is asked again after it raised
GenerateFail_retry ==
    /\ pc = "generating"
    /\ gen_calls < 2
    /\ gen_calls' = gen_calls + 1
    /\ UNCHANGED <<pc, user_message, red_flags, current_session, gen_request,
                   raw_response, response, current_conversation, stored, recent_context,
                   outcome, log_before, turns, prev, log_at_init, fn_in, fn_out, cliVars,
                   runnerVars>>

\* rag_chain, line 268: self.llm raises
GenerateFail ==
    /\ pc = "generating"
    /\ Raise("generation_error")
    /\ gen_calls' = gen_calls + 1

\* chat, lines 292-299
Reconcile ==
    /\ pc = "reconciling"
    /\ pc' = "persist_user"
    /\ response' = Reconciled(raw_response, red_flags)
    /\ UNCHANGED <<user_message, red_flags, current_session, gen_request, raw_response,
                   current_conversation, stored, recent_context, outcome, log_before,
                   turns, prev, log_at_init, fn_in, fn_out, gen_calls, cliVars, runnerVars>>

\* faulty variant: drops the metadata of the patient message
PersistUser_no_metadata ==
    /\ pc = "persist_user"
    /\ pc' = "persist_assistant"
    /\ current_conversation' = add_message(current_conversation, "user", user_message, <<>>)
    /\ UNCHANGED <<user_message, red_flags, current_session, gen_request, raw_response,
                   response, stored, recent_context, outcome, log_before, turns, prev,
                   log_at_init, fn_in, fn_out, gen_calls, cliVars, runnerVars>>

\* chat, line 301
PersistUser ==
    /\ pc = "persist_user"
    /\ pc' = "persist_assistant"
    /\ current_conversation' = add_message(current_conversation, "user", user_message,
                                           red_flags)
    /\ UNCHANGED <<user_message, red_flags, current_session, gen_request, raw_response,
                   response, stored, recent_context, outcome, log_before, turns, prev,
                   log_at_init, fn_in, fn_out, gen_calls, cliVars, runnerVars>>

\* chat, lines 302-304
PersistAssistant ==
    /\ pc = "persist_assistant"
    /\ pc' = "idle"
    /\ outcome' = "ok"
    /\ current_conversation' = add_message(current_conversation, "assistant", response, <<>>)
    /\ UNCHANGED <<user_message, red_flags, current_session, gen_request, raw_response,
                   response, stored, recent_context, log_before, turns, prev,
                   log_at_init, fn_in, fn_out, gen_calls, cliVars, runnerVars>>

\* end_conversation
EndConversation ==
    /\ pc = "idle"
    /\ stored' = save_conversation(current_conversation)
    /\ UNCHANGED <<pc, user_message, red_flags, current_session, gen_request, raw_response,
                   response, current_conversation, recent_context, outcome, log_before,
                   turns, prev, log_at_init, fn_in, fn_out, gen_calls, cliVars, runnerVars>>

\* get_patient_summary: an aggregation over the persisted record
GetPatientSummary ==
    /\ pc = "idle"
    /\ UNCHANGED vars

(***************************************************************************)
(* Spec: a session of several turns                                        *)
(***************************************************************************)
Msg(role, content, flags) == [role |-> role, content |-> content, red_flags |-> flags]

\* persisted records a process may find when it starts
StoredHistories ==
    { <<>>,
      <<Msg("user", <<"fiber">>, <<>>), Msg("assistant", <<"w">>, <<>>)>>,
      <<Msg("user", <<"fiber">>, <<>>), Msg("assistant", <<"w">>, <<>>),
        Msg("user", <<"fever">>, <<"fever">>), Msg("assistant", <<"w", "see a doctor">>, <<>>),
        Msg("user", <<"know">>, <<>>), Msg("assistant", <<"w", "w">>, <<>>)>> }

\* what the patient types in Spec
Messages == { <<"fiber">>, <<"Tarry", "stool", "Dizzy">>, <<"havent", "poop", "4 days">> }

\* what the LLM answers in Spec
Replies == { <<"w">>, <<"W", "V", "w", "Urgent Care">> }

\* __init__, lines 236-238, in a process that finds one of the records of S
InitChatFrom(S) ==
    /\ pc = "idle"
    /\ user_message = None
    /\ red_flags = <<>>
    /\ current_session = <<>>
    /\ gen_request = None
    /\ raw_response = None
    /\ response = None
    /\ stored \in S
    /\ current_conversation = start_conversation(stored)
    /\ recent_context = get_recent_context(current_conversation, ContextMax)
    /\ outcome = None
    /\ log_before = current_conversation
    /\ turns = 0
    /\ prev = [message |-> None, outcome |-> None, log_before |-> <<>>]
    /\ log_at_init = current_conversation
    /\ gen_calls = 0

InitChat == InitChatFrom(StoredHistories)

\* chat is not called from main
NoCli ==
    /\ cli = "none"
    /\ end_calls = 0
    /\ runs = 1
    /\ saved_log = <<>>

\* chat is not called from the test runner
NoRunner ==
    /\ runner = "off"
    /\ cases = <<>>
    /\ responses = <<>>
    /\ report = None

Init ==
    /\ InitChat
    /\ NoCli
    /\ NoRunner
    /\ fn_in = None
    /\ fn_out = <<>>

Next ==
    \/ \E m \in Messages : ChatCall(m)
    \/ Assemble
    \/ RetrieveFail
    \/ \E raw \in Replies : Generate(raw)
    \/ GenerateFail
    \/ Reconcile
    \/ PersistUser
    \/ PersistAssistant
    \/ EndConversation
    \/ GetPatientSummary

Spec == Init /\ [][Next]_vars

(***************************************************************************)
(* SpecTurn: one turn, over every generated reply of up to MaxReplyLen     *)
(* tokens.  What Reconcile makes of a reply does not depend on the log, so *)
(* one turn from the empty log covers the reconciliation of every turn.    *)
(***************************************************************************)
ReplyTokens == {"w", "W", "V", "Urgent Care"}

TurnReplies == SeqsUpTo(ReplyTokens, MaxReplyLen)

TurnMessages ==
    { <<"fiber">>, <<"know">>, <<"FEVER">>, <<"Tarry", "Dizzy">>,
      <<"havent", "poop", "4 days">>, <<"fever", "gushing">> }

InitTurn ==
    /\ Init
    /\ stored = <<>>

NextTurn ==
    \/ \E m \in TurnMessages : turns = 0 /\ ChatCall(m)
    \/ Assemble
    \/ RetrieveFail
    \/ \E raw \in TurnReplies : Generate(raw)
    \/ GenerateFail
    \/ Reconcile
    \/ PersistUser
    \/ PersistAssistant
    \/ EndConversation
    \/ GetPatientSummary

SpecTurn == InitTurn /\ [][NextTurn]_vars

\* the turn has left Reconcile with a final reply
Reconciling_done ==
    \/ pc \in {"persist_user", "persist_assistant"}
    \/ pc = "idle" /\ outcome = "ok"

\* positions of the marker in x
MarkerAt(x) == {i \in 1..(Len(x) - 1) : x[i] = "W" /\ x[i + 1] = "V"}

\* the final reply is the deduplicated reply followed by a warning of the composer
AppendedWarning ==
    /\ create_red_flag_warning(red_flags) # <<>>
    /\ response = _deduplicate_warnings(raw_response) \o create_red_flag_warning(red_flags)

\* the raw reply holds a warning of its own: the marker, or an indicator phrase
GeneratedWarning ==
    \/ MarkerAt(raw_response) # {}
    \/ \E i \in 1..Len(raw_response) :
          LowerTok(raw_response[i]) \in warning_indicators

\* C1: no final reply holds both a warning produced by generation (a marker glyph or
\* warning-like language in the raw reply) and a warning appended by
\* create_red_flag_warning.
C1_AtMostOneWarningBlock ==
    Reconciling_done => ~(GeneratedWarning /\ AppendedWarning)

\* C2: when the deduplicated reply holds a warning-indicator phrase, the final reply
\* of a turn with a non-empty category set is the deduplicated reply, nothing appended.
C2_NoAppendAfterIndicator ==
    (Reconciling_done /\ red_flags # <<>>
        /\ \E i \in 1..Len(_deduplicate_warnings(raw_response)) :
              LowerTok(_deduplicate_warnings(raw_response)[i]) \in warning_indicators)
    => response = _deduplicate_warnings(raw_response)

C2_Witness ==
    /\ Reconciling_done
    /\ red_flags # <<>>
    /\ Len(Split(raw_response, Marker)) > 2
    /\ "Urgent Care" \in {raw_response[i] : i \in 1..Len(raw_response)}
    /\ _has_warning(response)
    /\ response = _deduplicate_warnings(raw_response)

(***************************************************************************)
(* Claims on a session of several turns (Spec)                             *)
(***************************************************************************)
IsPrefix(s, t) == Len(s) <= Len(t) /\ SubSeq(t, 1, Len(s)) = s

\* the two messages a successful turn records
TurnPair ==
    <<Msg("user", user_message, red_flags), Msg("assistant", response, <<>>)>>

\* C3: a turn whose generation call fails leaves the log as it was, and a successful
\* retry of the same input right after it leaves exactly one (patient, assistant) pair
\* for that input after the log the failed turn started from.
C3_FailedTurnRecordsNothing ==
    pc = "idle" =>
        /\ outcome = "generation_error" => current_conversation = log_before
        /\ (outcome = "ok" /\ prev.outcome = "generation_error"
                /\ prev.message = user_message)
           => current_conversation = prev.log_before \o TurnPair

C3_Witness ==
    /\ pc = "idle"
    /\ outcome = "ok"
    /\ prev.outcome = "generation_error"
    /\ prev.message = user_message
    /\ red_flags # <<>>
    /\ Len(current_conversation) = Len(prev.log_before) + 2

\* C4: in every state the caller can observe (no call of chat is running) the log is
\* the log from before the last call, followed, when that call succeeded, by exactly
\* the patient message with its matched categories and then the assistant reply with
\* no categories.
C4_PairAppendedAtomically ==
    pc = "idle" =>
        IF outcome = "ok"
        THEN /\ current_conversation = log_before \o TurnPair
             /\ Len(current_conversation) = Len(log_before) + 2
             /\ current_conversation[Len(log_before) + 1].role = "user"
             /\ current_conversation[Len(log_before) + 1].red_flags
                    = check_for_red_flags(user_message)
             /\ current_conversation[Len(log_before) + 2].role = "assistant"
             /\ current_conversation[Len(log_before) + 2].red_flags = <<>>
        ELSE current_conversation = log_before

C4_Witness ==
    /\ pc = "idle"
    /\ outcome = "ok"
    /\ turns = 2
    /\ red_flags = <<"black_stool", "dizziness">>
    /\ current_conversation = log_before \o TurnPair

\* C5: the log only grows at its end: in every step the log before the step is a
\* prefix of the log after it, whichever of the chat steps, the failures, the summary
\* request and end_conversation the step is.
C5_LogAppendOnly ==
    [][IsPrefix(current_conversation, current_conversation')]_vars

C5_Witness ==
    /\ pc = "idle"
    /\ outcome = "ok"
    /\ prev.outcome = "retrieval_error"
    /\ stored = current_conversation
    /\ Len(current_conversation) > ContextMax
    /\ Len(current_conversation) > Len(log_at_init)

\* C10 as claimed: what generation is given of the prior conversation is at most
\* ContextMax messages, and they are the latest messages of the log at the time of
\* the turn, in order.  It is stated for the chat history and for the conversation
\* context, and counts as met when either of the two is that projection.
C10_BoundedRecentProjection ==
    pc = "generating" =>
        \/ /\ Len(gen_request.chat_history) <= 6
           /\ gen_request.chat_history
                  = format_chat_history(LastN(current_conversation, 6))
        \/ /\ Len(gen_request.conversation_context) <= 6
           /\ current_conversation # <<>>
           /\ gen_request.conversation_context
                  = _format_conversation_context_all(LastN(current_conversation, 6))

\* C10 amended: the conversation context given to generation is built from the
\* snapshot taken at construction (the last 6 messages of the log as it was then), of
\* which the last 4 are shown, in order; the chat history given to generation is the
\* whole log at the time of the turn, in order, with no bound.
C10_SnapshotContextAndFullHistory ==
    /\ recent_context = LastN(log_at_init, 6)
    /\ pc = "generating" =>
        /\ Len(gen_request.chat_history) = Len(current_conversation)
        /\ \A i \in 1..Len(current_conversation) :
              /\ gen_request.chat_history[i].content = current_conversation[i].content
              /\ gen_request.chat_history[i].type
                    = (IF current_conversation[i].role = "user" THEN "HumanMessage"
                       ELSE "AIMessage")
        /\ IF log_at_init = <<>>
           THEN gen_request.conversation_context
                    = <<"First conversation with this patient.">>
           ELSE /\ Len(gen_request.conversation_context)
                      = (IF Len(log_at_init) < 4 THEN Len(log_at_init) ELSE 4)
                /\ \A i \in 1..Len(gen_request.conversation_context) :
                      LET m == log_at_init[Len(log_at_init)
                                  - Len(gen_request.conversation_context) + i]
                      IN /\ gen_request.conversation_context[i].content = m.content
                         /\ gen_request.conversation_context[i].role
                               = (IF m.role = "user" THEN "Patient" ELSE "You")

C10_Witness ==
    /\ pc = "generating"
    /\ turns = 2
    /\ Len(current_conversation) > 6
    /\ Len(current_conversation) > Len(log_at_init)
    /\ Len(recent_context) = 6
    /\ Len(gen_request.conversation_context) = 4

(***************************************************************************)
(* SpecWarn: create_red_flag_warning on every list of up to MaxFlags flags *)
(***************************************************************************)
FlagInputs == SeqsUpTo(FlagSet \cup {"unlisted"}, MaxFlags)

InitWarn ==
    /\ InitChat
    /\ NoCli
    /\ NoRunner
    /\ stored = <<>>
    /\ fn_in \in FlagInputs
    /\ fn_out = <<>>

ComposeWarning ==
    /\ fn_out = <<>>
    /\ fn_out' = <<create_red_flag_warning(fn_in)>>
    /\ UNCHANGED <<chatVars, fn_in>>

NextWarn == ComposeWarning

SpecWarn == InitWarn /\ [][NextWarn]_vars

\* C6: a list that holds at least one of heavy_bleeding, black_stool, severe_pain,
\* dizziness gets the critical template, whatever else and however much it holds.
C6_CriticalDominates ==
    (fn_out # <<>>
        /\ \E i \in 1..Len(fn_in) :
              fn_in[i] \in {"heavy_bleeding", "black_stool", "severe_pain", "dizziness"})
    => /\ fn_out[1] = CriticalTemplate
       /\ fn_out[1] # NonUrgentTemplate

C6_Witness ==
    /\ fn_out = <<CriticalTemplate>>
    /\ Len(fn_in) = 3
    /\ fn_in[1] = "fever"
    /\ fn_in[2] = "prolonged_constipation"
    /\ fn_in[3] = "dizziness"

\* C7: a non-empty list of only prolonged_constipation and fever gets the non-urgent
\* template and not the critical one; the empty list gets the empty text.
C7_NonUrgentOnly ==
    fn_out # <<>> =>
        /\ fn_in = <<>> => fn_out[1] = <<>>
        /\ (fn_in # <<>>
              /\ \A i \in 1..Len(fn_in) : fn_in[i] \in {"prolonged_constipation", "fever"})
           => /\ fn_out[1] = NonUrgentTemplate
              /\ fn_out[1] # CriticalTemplate

C7_Witness ==
    /\ fn_out = <<NonUrgentTemplate>>
    /\ fn_in = <<"fever", "prolonged_constipation">>

(***************************************************************************)
(* SpecDedup: _deduplicate_warnings on every text of up to MaxTextLen      *)
(* tokens, applied once and then again to its own result                   *)
(***************************************************************************)
TextTokens == {"w", "W", "V", "nl"}

InitDedup ==
    /\ InitChat
    /\ NoCli
    /\ NoRunner
    /\ stored = <<>>
    /\ fn_in \in SeqsUpTo(TextTokens, MaxTextLen)
    /\ fn_out = <<>>

Deduplicate ==
    /\ fn_out = <<>>
    /\ fn_out' = <<_deduplicate_warnings(fn_in)>>
    /\ UNCHANGED <<chatVars, fn_in>>

DeduplicateAgain ==
    /\ Len(fn_out) = 1
    /\ fn_out' = Append(fn_out, _deduplicate_warnings(fn_out[1]))
    /\ UNCHANGED <<chatVars, fn_in>>

NextDedup ==
    \/ Deduplicate
    \/ DeduplicateAgain

SpecDedup == InitDedup /\ [][NextDedup]_vars

\* C8: applying _deduplicate_warnings to its own result changes nothing.
C8_DeduplicateIdempotent ==
    Len(fn_out) = 2 => fn_out[2] = fn_out[1]

C8_Witness ==
    /\ Len(fn_out) = 2
    /\ Cardinality(MarkerAt(fn_in)) = 3
    /\ fn_out[1] # fn_in
    /\ fn_out[2] = fn_out[1]

\* C9: a text with more than one marker becomes the text before the first marker,
\* a blank line, the last marker and the text after it, which holds exactly one
\* marker; a text with no marker or one marker is returned as it is.
C9_FirstSegmentAndLastWarning ==
    Len(fn_out) >= 1 =>
        LET at == MarkerAt(fn_in)
            first == CHOOSE i \in at : \A j \in at : i <= j
            last == CHOOSE i \in at : \A j \in at : j <= i
        IN IF Cardinality(at) > 1
           THEN /\ fn_out[1] = SubSeq(fn_in, 1, first - 1) \o <<"nl", "nl", "W", "V">>
                                  \o SubSeq(fn_in, last + 2, Len(fn_in))
                /\ Cardinality(MarkerAt(fn_out[1])) = 1
           ELSE fn_out[1] = fn_in

C9_Witness ==
    /\ Len(fn_out) >= 1
    /\ fn_in = <<"w", "W", "V", "W", "V", "nl">>
    /\ fn_out[1] = <<"w", "nl", "nl", "W", "V", "nl">>

(***************************************************************************)
(* SpecRecent: get_recent_context on session logs of 0..MaxLogLen          *)
(* messages, as __init__ calls it (max_messages = 6) and for the windows   *)
(* 0..MaxWindow                                                            *)
(***************************************************************************)
LogMessages ==
    {Msg("user", <<"fever">>, <<"fever">>), Msg("assistant", <<"w", "see a doctor">>, <<>>)}

SessionLogs == SeqsUpTo(LogMessages, MaxLogLen)

InitRecent ==
    /\ InitChatFrom(SessionLogs)
    /\ NoCli
    /\ NoRunner
    /\ fn_in = None
    /\ fn_out = <<>>

RecentContext(n) ==
    /\ fn_out = <<>>
    /\ fn_in' = n
    /\ fn_out' = <<get_recent_context(current_conversation, n)>>
    /\ UNCHANGED chatVars

NextRecent == \E n \in 0..MaxWindow : RecentContext(n)

SpecRecent == InitRecent /\ [][NextRecent]_vars

\* out is the last min(n, length) messages of log, oldest first
IsRecentWindow(log, n, out) ==
    /\ Len(out) <= n
    /\ Len(out) = (IF Len(log) < n THEN Len(log) ELSE n)
    /\ \A i \in 1..Len(out) : out[i] = log[Len(log) - Len(out) + i]

\* C11: the recent context of a session log of any length, for the window 6 of
\* __init__ and for every window asked for afterwards, is at most that many messages,
\* exactly the last min(N, length) of the log, oldest first (empty for an empty log),
\* and asking for it leaves the log as it was.
C11_RecentContextIsLastN ==
    /\ IsRecentWindow(log_at_init, 6, recent_context)
    /\ current_conversation = log_at_init
    /\ fn_out # <<>> => IsRecentWindow(current_conversation, fn_in, fn_out[1])

C11_Witness ==
    /\ fn_out # <<>>
    /\ fn_in = 2
    /\ Len(current_conversation) = 7
    /\ Len(recent_context) = 6
    /\ fn_out[1] = <<current_conversation[6], current_conversation[7]>>
    /\ current_conversation[6] # current_conversation[7]

(***************************************************************************)
(* SpecCli: main, from the construction of the chatbot (line 371) on, and  *)
(* later runs of main for the same patient                                 *)
(***************************************************************************)
InitCli ==
    /\ InitChat
    /\ cli = "loop"
    /\ end_calls = 0
    /\ runs = 1
    /\ saved_log = <<>>
    /\ NoRunner
    /\ fn_in = None
    /\ fn_out = <<>>

\* main, lines 388-391: an empty line
CliEmpty ==
    /\ cli = "loop" /\ pc = "idle"
    /\ UNCHANGED vars

\* main, lines 393-395: quit, exit or bye
CliQuit ==
    /\ cli = "loop" /\ pc = "idle"
    /\ cli' = "finally"
    /\ UNCHANGED <<pc, user_message, red_flags, current_session, gen_request, raw_response,
                   response, current_conversation, stored, recent_context, outcome,
                   log_before, turns, prev, log_at_init, fn_in, fn_out, gen_calls,
                   end_calls, runs, saved_log, runnerVars>>

\* main, lines 397-400: summary
CliSummary ==
    /\ cli = "loop"
    /\ GetPatientSummary

\* main, line 402: any other input is a turn
CliChat(m) ==
    /\ cli = "loop"
    /\ ChatCall(m)

\* main, line 388: input() raises (end of input, interrupt)
CliInputError ==
    /\ cli = "loop" /\ pc = "idle"
    /\ cli' = "finally"
    /\ outcome' = "input_error"
    /\ UNCHANGED <<pc, user_message, red_flags, current_session, gen_request, raw_response,
                   response, current_conversation, stored, recent_context,
                   log_before, turns, prev, log_at_init, fn_in, fn_out, gen_calls,
                   end_calls, runs, saved_log, runnerVars>>

\* main, lines 405-406: finally: chatbot.end_conversation()
CliFinally ==
    /\ cli = "finally" /\ pc = "idle"
    /\ stored' = save_conversation(current_conversation)
    /\ saved_log' = current_conversation
    /\ end_calls' = end_calls + 1
    /\ cli' = "exited"
    /\ UNCHANGED <<pc, user_message, red_flags, current_session, gen_request, raw_response,
                   response, current_conversation, recent_context, outcome, log_before,
                   turns, prev, log_at_init, fn_in, fn_out, gen_calls, runs, runnerVars>>

\* a later run of main for the same patient: a fresh ConversationMemory and chatbot,
\* whose recent context is recent
RestartWith(recent) ==
    /\ cli = "exited"
    /\ runs < MaxRuns
    /\ runs' = runs + 1
    /\ cli' = "loop"
    /\ end_calls' = 0
    /\ pc' = "idle"
    /\ user_message' = None
    /\ red_flags' = <<>>
    /\ current_session' = <<>>
    /\ gen_request' = None
    /\ raw_response' = None
    /\ response' = None
    /\ current_conversation' = start_conversation(stored)
    /\ recent_context' = recent
    /\ outcome' = None
    /\ log_before' = start_conversation(stored)
    /\ prev' = [message |-> None, outcome |-> None, log_before |-> <<>>]
    /\ log_at_init' = start_conversation(stored)
    /\ gen_calls' = 0
    /\ UNCHANGED <<stored, turns, saved_log, fn_in, fn_out, runnerVars>>

\* faulty variant: the recent context is not fetched
Restart_without_context == RestartWith(<<>>)

\* main, line 371, and __init__, lines 236-238
Restart == RestartWith(get_recent_context(start_conversation(stored), ContextMax))

NextCli ==
    \/ CliEmpty
    \/ CliQuit
    \/ CliSummary
    \/ \E m \in Messages : CliChat(m)
    \/ CliInputError
    \/ Assemble
    \/ RetrieveFail
    \/ \E raw \in Replies : Generate(raw)
    \/ GenerateFail
    \/ Reconcile
    \/ PersistUser
    \/ PersistAssistant
    \/ CliFinally
    \/ Restart

SpecCli == InitCli /\ [][NextCli]_vars

C16_FlushedOnceOnExit ==
    /\ cli = "exited" => (end_calls = 1 /\ stored = current_conversation)
    /\ cli \in {"loop", "finally"} => end_calls = 0

C16_Witness ==
    /\ cli = "exited"
    /\ end_calls = 1
    /\ outcome = "generation_error"
    /\ turns = 2
    /\ stored = current_conversation
    /\ Len(current_conversation) > Len(log_at_init)

(***************************************************************************)
(* The order of the steps of a turn (Spec)                                 *)
(***************************************************************************)
\* the moves of a turn from one position to the next
StepOrder ==
    { <<"idle", "assembly">>,               \* chat entered, message classified
      <<"assembly", "generating">>,         \* context and retrieval done
      <<"assembly", "idle">>,               \* retrieval raised
      <<"generating", "reconciling">>,      \* the LLM answered
      <<"generating", "idle">>,             \* the LLM raised
      <<"reconciling", "persist_user">>,
      <<"persist_user", "persist_assistant">>,
      <<"persist_assistant", "idle">> }

\* C13: a turn moves through classification, context assembly with retrieval,
\* generation, reconciliation and the two appends in that order only: the message is
\* classified and the retrieved documents are in the request before the LLM is
\* invoked, the LLM is invoked exactly once in a turn that gets past generation and
\* never twice, and the log changes only after reconciliation has produced the reply.
C13_StepsInOrder ==
    [][ /\ pc' # pc => <<pc, pc'>> \in StepOrder
        /\ pc' = "assembly" => (red_flags' = check_for_red_flags(user_message')
                                 /\ gen_calls' = 0 /\ gen_request' = None)
        /\ pc' = "generating" => (gen_request'.context = "docs" /\ gen_calls' = 0)
        /\ gen_calls' <= 1
        /\ gen_calls' # gen_calls => (pc = "generating" \/ pc' = "assembly")
        /\ pc' \in {"reconciling", "persist_user", "persist_assistant"} => gen_calls' = 1
        /\ current_conversation' # current_conversation
              => (pc \in {"persist_user", "persist_assistant"}
                  /\ response = Reconciled(raw_response, red_flags))
      ]_vars

C13_Witness ==
    /\ pc = "idle"
    /\ outcome = "ok"
    /\ gen_calls = 1
    /\ turns = 3
    /\ prev.outcome = "generation_error"
    /\ red_flags # <<>>

(***************************************************************************)
(* SpecClassify: check_for_red_flags on every message of up to MaxMsgLen   *)
(* fragments, then create_red_flag_warning on its result                   *)
(***************************************************************************)
Fragments ==
    {"fiber", "Tarry", "Dizzy", "fever", "know", "havent", "poop", "4 days", "dark",
     "stool", "nl"}

InitClassify ==
    /\ InitChat
    /\ stored = <<>>
    /\ NoCli
    /\ NoRunner
    /\ fn_in \in SeqsUpTo(Fragments, MaxMsgLen)
    /\ fn_out = <<>>

Classify ==
    /\ fn_out = <<>>
    /\ fn_out' = <<check_for_red_flags(fn_in)>>
    /\ UNCHANGED <<chatVars, fn_in>>

ComposeForResult ==
    /\ Len(fn_out) = 1
    /\ fn_out' = Append(fn_out, create_red_flag_warning(fn_out[1]))
    /\ UNCHANGED <<chatVars, fn_in>>

NextClassify ==
    \/ Classify
    \/ ComposeForResult

SpecClassify == InitClassify /\ [][NextClassify]_vars

\* the fragment f occurs in m, in any letter case
Says(m, f) == \E i \in 1..Len(m) : LowerTok(m[i]) = f

\* f occurs in m, then g, then h, with no newline from the first to the last
SaysInOrder(m, f, g, h) ==
    \E i, j, k \in 1..Len(m) :
        /\ i < j /\ j < k
        /\ LowerTok(m[i]) = f /\ LowerTok(m[j]) = g /\ LowerTok(m[k]) = h
        /\ \A n \in i..k : m[n] # "nl"

\* the trigger pattern of flag matches the message m
Triggers(flag, m) ==
    CASE flag = "fever" -> Says(m, "fever")
      [] flag = "dizziness" -> Says(m, "dizzy")
      [] flag = "black_stool" ->
            \/ Says(m, "tarry")
            \/ \E i, j \in 1..Len(m) :
                  /\ i < j /\ m[i] = "dark" /\ m[j] = "stool"
                  /\ \A n \in i..j : m[n] # "nl"
      [] flag = "prolonged_constipation" ->
            \/ SaysInOrder(m, "know", "poop", "4 days")
            \/ SaysInOrder(m, "havent", "poop", "4 days")
            \/ SaysInOrder(m, "know", "stool", "4 days")
            \/ SaysInOrder(m, "havent", "stool", "4 days")
      [] OTHER -> FALSE

\* C14: the result of check_for_red_flags holds every category whose trigger pattern
\* matches the message in any letter case, each once, and no other; a message that
\* says tarry and dizzy gets both black_stool and dizziness, and the warning composed
\* for that result is the critical template.
C14_AllMatchesReturned ==
    Len(fn_out) >= 1 =>
        /\ \A flag \in FlagSet :
              (\E i \in 1..Len(fn_out[1]) : fn_out[1][i] = flag) <=> Triggers(flag, fn_in)
        /\ \A i, j \in 1..Len(fn_out[1]) : fn_out[1][i] = fn_out[1][j] => i = j
        /\ (Says(fn_in, "tarry") /\ Says(fn_in, "dizzy")) =>
              /\ \E i, j \in 1..Len(fn_out[1]) :
                    i < j /\ fn_out[1][i] = "black_stool" /\ fn_out[1][j] = "dizziness"
              /\ Len(fn_out) = 2 => fn_out[2] = CriticalTemplate

C14_Witness ==
    /\ Len(fn_out) = 2
    /\ fn_in = <<"fiber", "Tarry", "Dizzy">>
    /\ fn_out[1] = <<"black_stool", "dizziness">>
    /\ fn_out[2] = CriticalTemplate

\* C18: every key of RED_FLAG_PATTERNS is in exactly one of the two tiers, and the
\* warning composed for a result of check_for_red_flags is empty exactly when that
\* result is empty.
C18_TiersPartitionTable ==
    /\ \A flag \in FlagSet :
          /\ flag \in critical \/ flag \in non_urgent
          /\ ~(flag \in critical /\ flag \in non_urgent)
    /\ Len(fn_out) = 2 => (fn_out[2] = <<>> <=> fn_out[1] = <<>>)

C18_Witness ==
    /\ Len(fn_out) = 2
    /\ fn_out[1] = <<"dizziness">>
    /\ fn_out[2] # <<>>
    /\ fn_in = <<"Dizzy">>

(***************************************************************************)
(* Claims on the warning of one turn (SpecTurn)                            *)
(***************************************************************************)
\* C15: for a message that no trigger pattern matches, check_for_red_flags gives the
\* empty list, create_red_flag_warning gives the empty text for it, and the final
\* reply is the deduplicated generated reply, whatever was generated.
C15_NoMatchNoWarning ==
    (Reconciling_done /\ \A flag \in FlagSet : ~Triggers(flag, user_message)) =>
        /\ red_flags = <<>>
        /\ create_red_flag_warning(red_flags) = <<>>
        /\ response = _deduplicate_warnings(raw_response)
        /\ Len(response) <= Len(raw_response)

C15_Witness ==
    /\ Reconciling_done
    /\ user_message = <<"know">>
    /\ red_flags = <<>>
    /\ Cardinality(MarkerAt(raw_response)) = 1
    /\ ~_has_warning(raw_response)
    /\ response = raw_response

\* C17: the final reply of a successful turn whose message matched a category holds
\* at least one warning-indicator phrase, in some letter case.
C17_FlaggedTurnCarriesIndicator ==
    (Reconciling_done /\ \E flag \in FlagSet : Triggers(flag, user_message)) =>
        \E i \in 1..Len(response) :
            LowerTok(response[i]) \in
                {"contact your doctor", "see a doctor", "medical attention", "urgent care",
                 "emergency", "healthcare provider"}

C17_Witness ==
    /\ pc = "idle"
    /\ outcome = "ok"
    /\ red_flags = <<"fever">>
    /\ ~_has_warning(raw_response)
    /\ Len(raw_response) = 5
    /\ response = _deduplicate_warnings(raw_response) \o NonUrgentTemplate

(***************************************************************************)
(* SpecRunner: the generation loop of debug_test_runner over one chatbot.  *)
(* The loop index is turns; a response r is held as <<r>> and None as <<>>.*)
(***************************************************************************)
\* the state of the chatbot, which the loop's own steps leave alone
botVars == <<pc, user_message, red_flags, current_session, gen_request, raw_response,
             response, current_conversation, stored, recent_context, outcome, log_before,
             turns, prev, log_at_init, gen_calls, cliVars, fn_in, fn_out>>

\* debug_test_runner, lines 51 and 104: one chatbot, the test cases (their questions)
InitRunner ==
    /\ InitChat
    /\ NoCli
    /\ cases \in SeqsUpTo(Messages, MaxTurns)
    /\ runner = IF cases = <<>> THEN "save" ELSE "loop"
    /\ responses = <<>>
    /\ report = None
    /\ fn_in = None
    /\ fn_out = <<>>

\* line 110: chatbot.chat(test_case['question']) for the next test case
RunnerCall ==
    /\ runner = "loop"
    /\ turns = Len(responses)
    /\ turns < Len(cases)
    /\ ChatCall(cases[turns + 1])

\* faulty variant: no except clause around the call, the first error ends the loop
RunnerRecord_abort ==
    /\ runner = "loop"
    /\ pc = "idle"
    /\ turns = Len(responses) + 1
    /\ responses' = IF outcome = "ok"
                    THEN Append(responses,
                                [test_case |-> cases[turns], response |-> <<response>>])
                    ELSE responses
    /\ runner' = IF outcome # "ok" \/ Len(responses') = Len(cases) THEN "save" ELSE "loop"
    /\ UNCHANGED <<botVars, cases, report>>

\* lines 111-122: the entry of the test case, from the return or from the exception
RunnerRecord ==
    /\ runner = "loop"
    /\ pc = "idle"
    /\ turns = Len(responses) + 1
    /\ responses' = Append(responses,
                           IF outcome = "ok"
                           THEN [test_case |-> cases[turns], response |-> <<response>>]
                           ELSE [test_case |-> cases[turns], response |-> <<>>,
                                 error |-> outcome])
    /\ runner' = IF Len(responses') = Len(cases) THEN "save" ELSE "loop"
    /\ UNCHANGED <<botVars, cases, report>>

\* lines 128-135: the summary written after the loop
RunnerSave ==
    /\ runner = "save"
    /\ runner' = "done"
    /\ report' = [total_cases |-> Len(responses),
                  successful |->
                      Cardinality({i \in 1..Len(responses) : responses[i].response # <<>>}),
                  failed |->
                      Cardinality({i \in 1..Len(responses) : responses[i].response = <<>>}),
                  results |-> responses]
    /\ UNCHANGED <<botVars, cases, responses>>

NextRunner ==
    \/ RunnerCall
    \/ Assemble
    \/ RetrieveFail
    \/ \E raw \in Replies : Generate(raw)
    \/ GenerateFail
    \/ Reconcile
    \/ PersistUser
    \/ PersistAssistant
    \/ RunnerRecord
    \/ RunnerSave

SpecRunner == InitRunner /\ [][NextRunner]_vars

\* role and content of the messages of a log
LogContents(log) == [i \in 1..Len(log) |-> <<log[i].role, log[i].content>>]

\* the messages that the entries of the results stand for: a pair for an entry with a
\* response, nothing for an entry without
RECURSIVE RunnerPairs(_)
RunnerPairs(rs) ==
    IF rs = <<>> THEN <<>>
    ELSE LET r == rs[Len(rs)]
         IN RunnerPairs(SubSeq(rs, 1, Len(rs) - 1)) \o
            (IF r.response = <<>> THEN <<>>
             ELSE << <<"user", r.test_case>>, <<"assistant", r.response[1]>> >>)

\* C19: an error of one test case does not end the loop: the results hold one entry
\* per test case, in input order, with a response or with None and an error;
\* successful + failed = total_cases = number of test cases; and the log of the one
\* chatbot is the log it started with followed by the two messages of every successful
\* case and nothing for a failed one.
C19_EveryCaseRecordedOnce ==
    /\ Len(responses) <= Len(cases)
    /\ \A i \in 1..Len(responses) :
          /\ responses[i].test_case = cases[i]
          /\ responses[i].response = <<>> <=> "error" \in DOMAIN responses[i]
    /\ pc = "idle" /\ turns = Len(responses) =>
          LogContents(current_conversation) =
              LogContents(log_at_init) \o RunnerPairs(responses)
    /\ runner \in {"save", "done"} => Len(responses) = Len(cases)
    /\ runner = "done" =>
          /\ report.total_cases = Len(cases)
          /\ report.successful + report.failed = report.total_cases
          /\ report.results = responses
          /\ Len(current_conversation) = Len(log_at_init) + 2 * report.successful

C19_Witness ==
    /\ runner = "done"
    /\ Len(cases) = 3
    /\ responses[1].response = <<>>
    /\ responses[2].response # <<>>
    /\ responses[3].response # <<>>
    /\ report.failed = 1
    /\ report.successful = 2
    /\ log_at_init # <<>>

(***************************************************************************)
(* SpecCompare: EvaluationComparison over the results of the two files.    *)
(* A number x/y that Python holds as a float is held as [num, den].        *)
(***************************************************************************)
\* dict.get(key, default)
Get(d, key, default) == IF key \in DOMAIN d THEN d[key] ELSE default

\* the evaluations an LLM result may hold; keys may be absent
LlmEvaluations ==
    { [recommended_action |-> "PASS", overall_assessment |-> [percentage |-> 85]],
      [recommended_action |-> "FAIL", overall_assessment |-> [percentage |-> 40]],
      [reasoning |-> "r"] }

\* the evaluations a human result may hold; keys may be absent
HumanEvaluations ==
    { [verdict |-> "PASS", overall_rating |-> 4],
      [verdict |-> "FAIL", overall_rating |-> 2, comments |-> "c"],
      [evaluator |-> "e"] }

TestCaseIds == {1, 2}

\* self.llm_data['detailed_results'], line 41-44
LlmResults ==
    { [test_case_id |-> id, question |-> <<"q", id>>, response |-> <<"w">>,
       evaluation |-> e] : id \in TestCaseIds, e \in LlmEvaluations }

\* self.human_data['results'], lines 46-49
HumanResults ==
    { [test_case_id |-> id, evaluation |-> e] : id \in TestCaseIds, e \in HumanEvaluations }

\* a dict comprehension keyed by test_case_id: a later result replaces an earlier one
\* with the same id
ById(results) ==
    [id \in {results[i].test_case_id : i \in 1..Len(results)} |->
        LET last == CHOOSE i \in 1..Len(results) :
                        /\ results[i].test_case_id = id
                        /\ \A j \in (i + 1)..Len(results) : results[j].test_case_id # id
        IN results[last]]

\* the keys of that dict, in insertion order: an id stands where it first occurred
Keys(results) ==
    LET First(i) == \A j \in 1..(i - 1) : results[j].test_case_id # results[i].test_case_id
        firsts == SelectSeq([i \in 1..Len(results) |-> i], First)
    IN [k \in 1..Len(firsts) |-> results[firsts[k]].test_case_id]

\* faulty variant: walks the LLM results instead of the keys of the lookup
match_evaluations_per_result(llm_results, human_results) ==
    LET llm_by_id == ById(llm_results)
        human_by_id == ById(human_results)
        ids == [i \in 1..Len(llm_results) |-> llm_results[i].test_case_id]
        InHuman(test_id) == test_id \in DOMAIN human_by_id
        both == SelectSeq(ids, InHuman)
    IN [k \in 1..Len(both) |->
           [test_case_id |-> both[k],
            question |-> llm_by_id[both[k]].question,
            llm |-> llm_by_id[both[k]],
            human |-> human_by_id[both[k]]]]

\* match_evaluations, lines 37-63
match_evaluations(llm_results, human_results) ==
    LET llm_by_id == ById(llm_results)
        human_by_id == ById(human_results)
        InHuman(test_id) == test_id \in DOMAIN human_by_id
        both == SelectSeq(Keys(llm_results), InHuman)
    IN [k \in 1..Len(both) |->
           [test_case_id |-> both[k],
            question |-> llm_by_id[both[k]].question,
            llm |-> llm_by_id[both[k]],
            human |-> human_by_id[both[k]]]]

\* lines 80 and 83 (and 134-135): the two verdicts of a case
LlmVerdict(case) == Get(case.llm.evaluation, "recommended_action", "UNKNOWN")
HumanVerdict(case) == Get(case.human.evaluation, "verdict", "UNKNOWN")

\* lines 97-98 (and 141-142): the two scores of a case, on the scale 0-100
LlmScore(case) ==
    Get(Get(case.llm.evaluation, "overall_assessment", [none |-> 0]), "percentage", 0)
HumanScore(case) == Get(case.human.evaluation, "overall_rating", 0) * 20

Abs(x) == IF x < 0 THEN -x ELSE x

RECURSIVE Sum(_)
Sum(xs) == IF xs = <<>> THEN 0 ELSE xs[1] + Sum(Tail(xs))

\* calculate_agreement, lines 65-122
calculate_agreement(matched_cases) ==
    LET Agree(case) == LlmVerdict(case) = HumanVerdict(case)
        Disagree(case) == ~Agree(case)
        Similar(case) == Abs(LlmScore(case) - HumanScore(case)) <= 10
        differing == SelectSeq(matched_cases, Disagree)
        score_differences ==
            [i \in 1..Len(matched_cases) |->
                Abs(LlmScore(matched_cases[i]) - HumanScore(matched_cases[i]))]
        total == Len(matched_cases)
        Percentage(count) ==
            IF total > 0 THEN [num |-> count * 100, den |-> total] ELSE [num |-> 0, den |-> 1]
    IN [total_cases |-> total,
        verdict_agreement |->
            [count |-> Len(SelectSeq(matched_cases, Agree)),
             percentage |-> Percentage(Len(SelectSeq(matched_cases, Agree)))],
        score_similarity |->
            [within_10_percent |-> Len(SelectSeq(matched_cases, Similar)),
             percentage |-> Percentage(Len(SelectSeq(matched_cases, Similar)))],
        avg_score_difference |->
            IF score_differences # <<>>
            THEN [num |-> Sum(score_differences), den |-> Len(score_differences)]
            ELSE [num |-> 0, den |-> 1],
        disagreements |->
            [i \in 1..Len(differing) |->
                [test_case_id |-> differing[i].test_case_id,
                 question |->
                     SubSeq(differing[i].question, 1,
                            IF Len(differing[i].question) < 80
                            THEN Len(differing[i].question) ELSE 80) \o <<"...">>,
                 llm_verdict |-> LlmVerdict(differing[i]),
                 human_verdict |-> HumanVerdict(differing[i])]],
        score_differences |-> score_differences]

\* f"{x:.1f}%" of a whole number x: its digits, one decimal 0, the sign
Format1f(x) == <<x, ".", 0, "%">>

\* find_major_disagreements, lines 124-154
find_major_disagreements(matched_cases) ==
    LET Major(case) ==
            \/ LlmVerdict(case) = "PASS" /\ HumanVerdict(case) = "FAIL"
            \/ LlmVerdict(case) = "FAIL" /\ HumanVerdict(case) = "PASS"
        major == SelectSeq(matched_cases, Major)
    IN [i \in 1..Len(major) |->
           [test_case_id |-> major[i].test_case_id,
            question |-> major[i].question,
            response |->
                SubSeq(major[i].llm.response, 1,
                       IF Len(major[i].llm.response) < 200
                       THEN Len(major[i].llm.response) ELSE 200) \o <<"...">>,
            llm_verdict |-> LlmVerdict(major[i]),
            llm_score |-> Format1f(LlmScore(major[i])),
            human_verdict |-> HumanVerdict(major[i]),
            human_score |-> Format1f(HumanScore(major[i])),
            human_comments |-> Get(major[i].human.evaluation, "comments", "")]]

\* __init__, lines 28-32: the results of the two files
InitCompare ==
    /\ InitChat
    /\ stored = <<>>
    /\ NoCli
    /\ NoRunner
    /\ fn_in \in [llm : SeqsUpTo(LlmResults, MaxEvals),
                  human : SeqsUpTo(HumanResults, MaxEvals)]
    /\ fn_out = <<>>

MatchEvaluations ==
    /\ fn_out = <<>>
    /\ fn_out' = <<match_evaluations(fn_in.llm, fn_in.human)>>
    /\ UNCHANGED <<chatVars, fn_in>>

CalculateAgreement ==
    /\ Len(fn_out) = 1
    /\ fn_out' = Append(fn_out, calculate_agreement(fn_out[1]))
    /\ UNCHANGED <<chatVars, fn_in>>

FindMajorDisagreements ==
    /\ Len(fn_out) = 2
    /\ fn_out' = Append(fn_out, find_major_disagreements(fn_out[1]))
    /\ UNCHANGED <<chatVars, fn_in>>

NextCompare ==
    \/ MatchEvaluations
    \/ CalculateAgreement
    \/ FindMajorDisagreements

SpecCompare == InitCompare /\ [][NextCompare]_vars

\* the test case ids of a list of results or of cases
IdsOf(xs) == {xs[i].test_case_id : i \in 1..Len(xs)}

\* C20: the matched list holds exactly the ids that both the LLM and the human results
\* hold, each once; the verdict agreement count plus the number of disagreements is
\* total_cases, which is the length of the matched list; both percentages are 0 when
\* total_cases is 0; and every case of find_major_disagreements, PASS against FAIL,
\* is among the disagreements.
C20_MatchedOnceAndCountsAddUp ==
    /\ Len(fn_out) >= 1 =>
          /\ IdsOf(fn_out[1]) = IdsOf(fn_in.llm) \cap IdsOf(fn_in.human)
          /\ \A i, j \in 1..Len(fn_out[1]) :
                fn_out[1][i].test_case_id = fn_out[1][j].test_case_id => i = j
    /\ Len(fn_out) >= 2 =>
          /\ fn_out[2].total_cases = Len(fn_out[1])
          /\ fn_out[2].verdict_agreement.count + Len(fn_out[2].disagreements) =
                 fn_out[2].total_cases
          /\ fn_out[2].total_cases = 0 =>
                 /\ fn_out[2].verdict_agreement.percentage.num = 0
                 /\ fn_out[2].score_similarity.percentage.num = 0
    /\ Len(fn_out) = 3 =>
          /\ \A i \in 1..Len(fn_out[3]) :
                /\ {fn_out[3][i].llm_verdict, fn_out[3][i].human_verdict} = {"PASS", "FAIL"}
                /\ \E j \in 1..Len(fn_out[2].disagreements) :
                      fn_out[2].disagreements[j].test_case_id = fn_out[3][i].test_case_id

C20_Witness ==
    /\ Len(fn_out) = 3
    /\ Len(fn_in.llm) = 2
    /\ fn_in.llm[1].test_case_id = fn_in.llm[2].test_case_id
    /\ Len(fn_in.human) = 2
    /\ Len(fn_out[1]) = 1
    /\ Len(fn_out[3]) = 1
    /\ fn_out[2].verdict_agreement.count = 0

====
